---- MODULE Spec2Model ----
(***************************************************************************)
(* Model of packages/desktop/src/main.rs of zebar: the entry point         *)
(* (main, start_app), the single-instance gate (setup_single_instance),    *)
(* the command executor (open_widgets_by_cli_command) and the Dispatcher   *)
(* loop (listen_events).                                                   *)
(*                                                                         *)
(* Process A is the first instance.  Process B stands for the later        *)
(* invocations, one at a time.  The components whose code is not in        *)
(* main.rs (Config, WidgetFactory, SysTray, the broadcast channels, the    *)
(* single-instance plugin) are modelled from the specification.            *)
(***************************************************************************)
EXTENDS Integers, Sequences, FiniteSets, TLC

(***************************************************************************)
(* Bounds of the model.                                                    *)
(***************************************************************************)
\* Later invocations (process B) launched while A holds the gate.
MaxInvocations == 2
\* Capacity of each broadcast channel: a receiver that falls more than
\* ChanCap messages behind lags.
ChanCap == 1

(***************************************************************************)
(* Command lines.  A command line is the sequence of its tokens after the  *)
(* program name.                                                           *)
(***************************************************************************)
NoDir == "none"
NoPath == "none"

ArgLines ==
  { <<>>,
    <<"startup">>,
    <<"startup", "--config-dir", "bad">>,
    <<"open-widget-default", "menu">>,
    <<"open-widget-default", "nope">>,
    <<"open-widget-default", "side", "--config-dir", "alt">>,
    <<"query", "monitors">> }

\* The command lines of the later invocations.
LaterArgLines == ArgLines \ { <<"open-widget-default", "nope">> }

\* A command line of another build of the program: that build's parser
\* accepts it, this build's parser does not.
ForeignArgLines == { <<"open", "menu">> }

CliError == [kind |-> "Error", config_path |-> NoPath, config_dir |-> NoDir]

MkCli(kind, path, dir) == [kind |-> kind, config_path |-> path, config_dir |-> dir]

\* Cli::parse / Cli::try_parse_from followed by Cli::command().
Parse(args) ==
  IF args = <<>> THEN MkCli("Empty", NoPath, NoDir)
  ELSE IF args[1] = "startup" THEN
    IF Len(args) = 1 THEN MkCli("Startup", NoPath, NoDir)
    ELSE IF Len(args) = 3 /\ args[2] = "--config-dir"
         THEN MkCli("Startup", NoPath, args[3])
         ELSE CliError
  ELSE IF args[1] = "open-widget-default" THEN
    IF Len(args) = 2 THEN MkCli("OpenWidgetDefault", args[2], NoDir)
    ELSE IF Len(args) = 4 /\ args[3] = "--config-dir"
         THEN MkCli("OpenWidgetDefault", args[2], args[4])
         ELSE CliError
  ELSE IF args = <<"query", "monitors">> THEN MkCli("Query", NoPath, NoDir)
  ELSE CliError

(***************************************************************************)
(* Config: the configuration directories on disk and what they hold.       *)
(***************************************************************************)
DefaultDir == "default"

\* The widget definition files of each directory, in directory order.
WidgetFiles(dir) ==
  IF dir = "default"
    THEN << [path |-> "bar",  autostart |-> TRUE],
            [path |-> "top",  autostart |-> TRUE],
            [path |-> "menu", autostart |-> FALSE] >>
  ELSE IF dir = "alt"
    THEN << [path |-> "side", autostart |-> TRUE] >>
  ELSE << >>

\* Config::new fails on a directory that cannot be loaded.
ConfigLoads(dir) == dir \in {"default", "alt"}

\* let config_dir_override = match cli.command() { ... }
ConfigDirOverride(cli) ==
  IF cli.kind \in {"OpenWidgetDefault", "Startup"} THEN cli.config_dir ELSE NoDir

\* Config::new(app.handle(), config_dir_override): the directory it loads.
ConfigDirOf(override) == IF override = NoDir THEN DefaultDir ELSE override

\* A WidgetConfig is identified by the path of its file.
WidgetConfig(dir, path) == [dir |-> dir, path |-> path]

\* config.join_config_dir(&args.config_path)
JoinConfigDir(cfg, path) == WidgetConfig(cfg.config_dir, path)

RECURSIVE SeqFilterMap(_, _)
\* The WidgetConfigs of the autostart files of `files`, in order.
SeqFilterMap(dir, files) ==
  IF files = << >> THEN << >>
  ELSE LET rest == SeqFilterMap(dir, Tail(files))
       IN IF Head(files).autostart
            THEN << WidgetConfig(dir, Head(files).path) >> \o rest
            ELSE rest

\* config.startup_widget_configs(): every widget config flagged autostart.
StartupWidgetConfigs(cfg) == SeqFilterMap(cfg.config_dir, WidgetFiles(cfg.config_dir))

\* config.widget_config_by_path(path): << >> when there is none.
WidgetConfigByPath(cfg, joined) ==
  IF joined.dir = cfg.config_dir
     /\ \E i \in 1..Len(WidgetFiles(cfg.config_dir)) :
          WidgetFiles(cfg.config_dir)[i].path = joined.path
    THEN << joined >>
    ELSE << >>

AllWidgetConfigs ==
  UNION { { WidgetConfig(d, WidgetFiles(d)[i].path) : i \in 1..Len(WidgetFiles(d)) } :
            d \in {"default", "alt"} }

\* The order in which the registry is walked.
WidgetOrder ==
  << WidgetConfig("default", "bar"), WidgetConfig("default", "top"),
     WidgetConfig("default", "menu"), WidgetConfig("alt", "side") >>

(***************************************************************************)
(* open_widgets_by_cli_command, first half: the batch a command resolves   *)
(* to.  ok = FALSE is the Err of the `?` operators.                        *)
(***************************************************************************)
RECURSIVE AllConfigsOf(_, _)
AllConfigsOf(dir, files) ==
  IF files = << >> THEN << >>
  ELSE << WidgetConfig(dir, Head(files).path) >> \o AllConfigsOf(dir, Tail(files))

\* ResolveBatch with the `_` arm opening every widget config, autostart or
\* not.
ResolveBatchEveryConfig(cli, cfg) ==
  IF cli.kind = "OpenWidgetDefault"
    THEN LET found == WidgetConfigByPath(cfg, JoinConfigDir(cfg, cli.config_path))
         IN IF found = << >>
              THEN [ok |-> FALSE, batch |-> << >>]
              ELSE [ok |-> TRUE, batch |-> found]
    ELSE [ok |-> TRUE, batch |-> AllConfigsOf(cfg.config_dir, WidgetFiles(cfg.config_dir))]

\* ResolveBatch with a missing path falling back to the startup set instead
\* of the Err.
ResolveBatchFallback(cli, cfg) ==
  IF cli.kind = "OpenWidgetDefault"
     /\ WidgetConfigByPath(cfg, JoinConfigDir(cfg, cli.config_path)) # << >>
    THEN [ok |-> TRUE,
          batch |-> WidgetConfigByPath(cfg, JoinConfigDir(cfg, cli.config_path))]
    ELSE [ok |-> TRUE, batch |-> StartupWidgetConfigs(cfg)]

\* ResolveBatch with the command's own --config-dir, when it has one, in
\* place of the directory of the Config it is given.
ResolveBatchOwnDir(cli, cfg) ==
  LET own == IF cli.config_dir = NoDir THEN cfg ELSE [config_dir |-> cli.config_dir]
  IN IF cli.kind = "OpenWidgetDefault"
       THEN LET found == WidgetConfigByPath(own, JoinConfigDir(own, cli.config_path))
            IN IF found = << >>
                 THEN [ok |-> FALSE, batch |-> << >>]
                 ELSE [ok |-> TRUE, batch |-> found]
       ELSE [ok |-> TRUE, batch |-> StartupWidgetConfigs(own)]

ResolveBatch(cli, cfg) ==
  IF cli.kind = "OpenWidgetDefault"
    THEN LET found == WidgetConfigByPath(cfg, JoinConfigDir(cfg, cli.config_path))
         IN IF found = << >>
              THEN [ok |-> FALSE, batch |-> << >>]
              ELSE [ok |-> TRUE, batch |-> found]
    ELSE [ok |-> TRUE, batch |-> StartupWidgetConfigs(cfg)]

(***************************************************************************)
(* The broadcast channels the Dispatcher subscribes to.  Of a channel the  *)
(* model keeps, for the Dispatcher's receiver, the number n of messages    *)
(* not yet received and whether the receiver has lagged (messages were     *)
(* overwritten before it received them).                                   *)
(***************************************************************************)
Signals ==
  {"widget_open", "widget_close", "settings_change", "monitors_change",
   "widget_configs_change"}

EmptyChan == [s \in Signals |-> [n |-> 0, lag |-> FALSE]]

\* Sender::send: delivered to the receivers subscribed at that moment; a
\* full ring overwrites its oldest message and the receiver lags.
ChanSend(c, s, subscribed) ==
  IF ~subscribed THEN c
  ELSE IF c[s].n < ChanCap THEN [c EXCEPT ![s].n = @ + 1]
  ELSE [c EXCEPT ![s].lag = TRUE]

\* ActionOf with the settings-changed arm calling relaunch_all.
ActionOfSettingsRelaunch(s) ==
  IF s \in {"widget_open", "widget_close"} THEN "refresh" ELSE "relaunch"

\* The reconciliation action of each arm of the select! of listen_events.
ActionOf(s) ==
  IF s \in {"widget_open", "widget_close", "settings_change"} THEN "refresh"
  ELSE "relaunch"

\* AwaitAction with the action detached (spawned) instead of awaited: the
\* loop goes straight back to select!.
AwaitActionDetached(act) == "select"

\* `.await` on the action: the loop resumes only when the action returned.
AwaitAction(act) == act

(***************************************************************************)
(* State.                                                                  *)
(***************************************************************************)
VARIABLES
  aargs,        \* A: its command line
  apc,          \* A: position in main / start_app
  aexit,        \* A: "none" while running, else "ok" or "err"
  config,       \* A: its Config (the directory it loaded), or NoDir
  constructed,  \* A: the components constructed so far, in order
  squeue,       \* A: configs the startup command has still to open
  scalled,      \* A: the open() calls of the startup command, in order
  registry,     \* A: WidgetFactory registry, open widgets per config
  tasks,        \* A: the tasks spawned by the single-instance callback
  bargs,        \* B: its command line
  bpc,          \* B: position in main / start_app
  bdone,        \* B: the finished invocations, a set of [args, outcome]
  nInv,         \* B: invocations launched so far
  log,          \* the error! lines written, as a set
  dpc,          \* Dispatcher: "off", "select", "refresh", "relaunch", "panicked"
  chan,         \* Dispatcher: its five receivers
  disabled,     \* Dispatcher: arms disabled in the current select!
  rl,           \* relaunch_all: its progress
  inflight,     \* relaunch_all: invocations begun and not yet returned
  trayRead,     \* SysTray: the registry as SysTray::new or refresh() last read it
  late,         \* per config, the registered widgets whose open() began
                \* before a change of monitors or widget configs and
                \* inserted after the latest relaunch_all began
  exitreq       \* app.run: the code of the latest exit request, or "unasked"

vars ==
  << aargs, apc, aexit, config, constructed, squeue, scalled, registry, tasks,
     bargs, bpc, bdone, nInv, log, dpc, chan, disabled, rl, inflight,
     trayRead, late, exitreq >>

aVars == << aargs, apc, aexit, config, constructed, squeue, scalled >>
bVars == << bargs, bpc, bdone, nInv >>
dVars == << dpc, chan, disabled, rl, inflight >>
xVars == << trayRead, late, exitreq >>

EmptyRegistry == [w \in AllWidgetConfigs |-> 0]
IdleRelaunch == [phase |-> "idle", close |-> << >>, open |-> << >>]

Init ==
  /\ aargs \in ArgLines
  /\ apc = "main"
  /\ aexit = "none"
  /\ config = [config_dir |-> NoDir]
  /\ constructed = << >>
  /\ squeue = << >>
  /\ scalled = << >>
  /\ registry = EmptyRegistry
  /\ tasks = << >>
  /\ bargs = << >>
  /\ bpc = "idle"
  /\ bdone = {}
  /\ nInv = 0
  /\ log = {}
  /\ dpc = "off"
  /\ chan = EmptyChan
  /\ disabled = {}
  /\ rl = IdleRelaunch
  /\ inflight = 0
  /\ trayRead = registry
  /\ late = EmptyRegistry
  /\ exitreq = "unasked"

Subscribed == dpc # "off"
AAlive == apc # "exited"
GateHeld == AAlive /\ "Gate" \in { constructed[i] : i \in 1..Len(constructed) }

(***************************************************************************)
(* WidgetFactory.open and close.                                           *)
(***************************************************************************)
\* The registry after open(w) with outcome ok.
RegAfterOpen(reg, w, ok) == IF ok THEN [reg EXCEPT ![w] = @ + 1] ELSE reg
\* The channels after open(w): a successful open emits on open_tx.
ChanAfterOpen(c, ok, subscribed) ==
  IF ok THEN ChanSend(c, "widget_open", subscribed) ELSE c
(***************************************************************************)
(* Process A: main and the setup closure of start_app, one action per      *)
(* step of the closure.                                                    *)
(***************************************************************************)
Built(name) == constructed \o << name >>

\* An Err leaves the setup closure through `?`: start_app returns it and
\* main logs it and returns it (non-zero exit).
AFail ==
  /\ apc' = "exited"
  /\ aexit' = "err"
  /\ log' = log \cup {"A.start_app"}

\* AMain without the Query arm: every command goes to start_app.
AMainQueryStartsApp ==
  /\ apc = "main"
  /\ apc' = "config"
  /\ UNCHANGED << aargs, aexit, config, constructed, squeue, scalled, registry, tasks, log >>
  /\ UNCHANGED bVars /\ UNCHANGED dVars
  /\ UNCHANGED xVars

\* main: Cli::parse and the match on cli.command().
AMain ==
  /\ apc = "main"
  /\ IF Parse(aargs).kind = "Query"
       THEN \* output_query: prints the monitors and exits 0
            /\ apc' = "exited"
            /\ aexit' = "ok"
            /\ constructed' = Built("QueryMonitorState")
       ELSE /\ apc' = "config"
            /\ UNCHANGED << aexit, constructed >>
  /\ UNCHANGED << aargs, config, squeue, scalled, registry, tasks, log >>
  /\ UNCHANGED bVars /\ UNCHANGED dVars
  /\ UNCHANGED xVars

\* Config::new(app.handle(), config_dir_override)?
AConfigNew ==
  /\ apc = "config"
  /\ LET dir == ConfigDirOf(ConfigDirOverride(Parse(aargs)))
     IN IF ConfigLoads(dir)
          THEN /\ config' = [config_dir |-> dir]
               /\ constructed' = Built("Config")
               /\ apc' = "monitor_state"
               /\ UNCHANGED << aexit, log >>
          ELSE /\ AFail
               /\ UNCHANGED << config, constructed >>
  /\ UNCHANGED << aargs, squeue, scalled, registry, tasks >>
  /\ UNCHANGED bVars /\ UNCHANGED dVars
  /\ UNCHANGED xVars

\* MonitorState::new(app.handle())
AMonitorState ==
  /\ apc = "monitor_state"
  /\ constructed' = Built("MonitorState")
  /\ apc' = "widget_factory"
  /\ UNCHANGED << aargs, aexit, config, squeue, scalled, registry, tasks, log >>
  /\ UNCHANGED bVars /\ UNCHANGED dVars
  /\ UNCHANGED xVars

\* WidgetFactory::new(app.handle(), config, monitor_state)
AWidgetFactory ==
  /\ apc = "widget_factory"
  /\ constructed' = Built("WidgetFactory")
  /\ apc' = "gate"
  /\ UNCHANGED << aargs, aexit, config, squeue, scalled, registry, tasks, log >>
  /\ UNCHANGED bVars /\ UNCHANGED dVars
  /\ UNCHANGED xVars

\* setup_single_instance(app, config, widget_factory)?: A is the first
\* instance, the plugin registers its callback.  Then the asset scope and
\* the shell, http and dialog plugins, which touch nothing shared.
AGate ==
  /\ apc = "gate"
  /\ constructed' = constructed \o << "Gate", "Plugins" >>
  /\ apc' = "provider_manager"
  /\ UNCHANGED << aargs, aexit, config, squeue, scalled, registry, tasks, log >>
  /\ UNCHANGED bVars /\ UNCHANGED dVars
  /\ UNCHANGED xVars

\* ProviderManager::new(app.handle()) and app.manage(manager)
AProviderManager ==
  /\ apc = "provider_manager"
  /\ constructed' = Built("ProviderManager")
  /\ apc' = "open_cmd"
  /\ UNCHANGED << aargs, aexit, config, squeue, scalled, registry, tasks, log >>
  /\ UNCHANGED bVars /\ UNCHANGED dVars
  /\ UNCHANGED xVars

\* open_widgets_by_cli_command(cli, config, widget_factory): the match
\* that resolves the batch.
AOpenCmd ==
  /\ apc = "open_cmd"
  /\ LET r == ResolveBatch(Parse(aargs), config)
     IN IF r.ok
          THEN /\ squeue' = r.batch
               /\ apc' = "opening"
               /\ UNCHANGED << aexit, log >>
          ELSE /\ AFail
               /\ UNCHANGED squeue
  /\ UNCHANGED << aargs, config, constructed, scalled, registry, tasks >>
  /\ UNCHANGED bVars /\ UNCHANGED dVars
  /\ UNCHANGED xVars

\* RestOfBatch with the Err of open() ending the loop, as `?` would.
RestOfBatchStopOnErr(queue, ok) == IF ok THEN Tail(queue) ELSE << >>

\* What is left of the batch after open() of its head returned ok.
RestOfBatch(queue, ok) == Tail(queue)

\* One turn of `for widget_config in widget_configs`: open() and, on Err,
\* error!("Failed to open window").
AOpenNext(ok) ==
  /\ apc = "opening"
  /\ squeue # << >>
  /\ scalled' = Append(scalled, [cfg |-> Head(squeue), ok |-> ok])
  /\ squeue' = RestOfBatch(squeue, ok)
  /\ registry' = RegAfterOpen(registry, Head(squeue), ok)
  /\ chan' = ChanAfterOpen(chan, ok, Subscribed)
  /\ log' = IF ok THEN log ELSE log \cup {"A.open_failed"}
  /\ UNCHANGED << aargs, apc, aexit, config, constructed, tasks >>
  /\ UNCHANGED bVars
  /\ UNCHANGED << dpc, disabled, rl, inflight >>
  /\ UNCHANGED xVars

\* ATray with the startup command detached instead of awaited:
\* SysTray::new runs while the batch is still being opened.
ATrayCommandDetached(ok) ==
  /\ apc = "opening"
  /\ IF ok
       THEN /\ constructed' = Built("SysTray")
            /\ apc' = "listen"
            /\ UNCHANGED << aexit, log >>
       ELSE /\ AFail
            /\ UNCHANGED constructed
  /\ trayRead' = IF ok THEN registry ELSE trayRead
  /\ UNCHANGED << aargs, config, squeue, scalled, registry, tasks, late, exitreq >>
  /\ UNCHANGED bVars /\ UNCHANGED dVars

\* The loop is over, open_widgets_by_cli_command returns Ok(()); then
\* SysTray::new(app.handle(), config, widget_factory).await?
ATray(ok) ==
  /\ apc = "opening"
  /\ squeue = << >>
  /\ IF ok
       THEN /\ constructed' = Built("SysTray")
            /\ apc' = "listen"
            /\ UNCHANGED << aexit, log >>
       ELSE /\ AFail
            /\ UNCHANGED constructed
  /\ UNCHANGED << aargs, config, squeue, scalled, registry, tasks >>
  /\ UNCHANGED bVars /\ UNCHANGED dVars
  /\ trayRead' = IF ok THEN registry ELSE trayRead
  /\ UNCHANGED << late, exitreq >>

\* listen_events: the five subscribe() calls and task::spawn of the loop;
\* the setup closure returns Ok(()) and app.run takes over.
AListen ==
  /\ apc = "listen"
  /\ constructed' = Built("Dispatcher")
  /\ apc' = "running"
  /\ dpc' = "select"
  /\ chan' = EmptyChan
  /\ disabled' = {}
  /\ UNCHANGED << aargs, aexit, config, squeue, scalled, registry, tasks, log >>
  /\ UNCHANGED bVars
  /\ UNCHANGED << rl, inflight >>
  /\ UNCHANGED xVars

AStep ==
  \/ AMain \/ AConfigNew \/ AMonitorState \/ AWidgetFactory \/ AGate
  \/ AProviderManager \/ AOpenCmd
  \/ (\E ok \in BOOLEAN : AOpenNext(ok))
  \/ (\E ok \in BOOLEAN : ATray(ok))
  \/ AListen

(***************************************************************************)
(* Process B: a later invocation of the program while A holds the gate.    *)
(* What B does before the gate touches nothing shared, so it is one step.  *)
(***************************************************************************)
\* B's own Cli::parse: another build accepts its own command lines, as an
\* open command without --config-dir.
BParse(args) ==
  IF args \in ForeignArgLines THEN MkCli("OpenWidgetDefault", NoPath, NoDir)
  ELSE Parse(args)

BFinish(args, outcome) ==
  /\ bdone' = bdone \cup {[args |-> args, outcome |-> outcome]}
  /\ bpc' = "idle"
  /\ bargs' = << >>

\* main and start_app in B up to the gate.  Cli::parse exits on a command
\* line it rejects; query is answered by output_query; Config::new(...)?
\* aborts start_app, and main logs the error; MonitorState::new and
\* WidgetFactory::new follow.
BLaunch(args) ==
  /\ bpc = "idle"
  /\ nInv < MaxInvocations
  /\ GateHeld
  /\ nInv' = nInv + 1
  /\ IF BParse(args).kind = "Error"
       THEN BFinish(args, "usage") /\ UNCHANGED log
     ELSE IF BParse(args).kind = "Query"
       THEN BFinish(args, "query") /\ UNCHANGED log
     ELSE IF ~ConfigLoads(ConfigDirOf(ConfigDirOverride(BParse(args))))
       THEN BFinish(args, "config_error") /\ log' = log \cup {"B.start_app"}
     ELSE /\ bargs' = args
          /\ bpc' = "gate"
          /\ UNCHANGED << bdone, log >>
  /\ UNCHANGED << registry, tasks >>
  /\ UNCHANGED aVars /\ UNCHANGED dVars
  /\ UNCHANGED xVars

\* gen: of the open() the task is inside, "current" when nothing changed
\* since it began, "outdated" when the monitors or the widget configs
\* changed since, "overtaken" when a relaunch_all began after that change.
NewTask(args) ==
  [args |-> args, pc |-> "spawned", queue |-> << >>, called |-> << >>, res |-> "none",
   gen |-> "current"]

\* setup_single_instance in B: the plugin finds the first instance, hands
\* it the command line (A's callback runs task::spawn) and exits B.  When
\* A has gone in the meantime B is the first instance itself.
BGate ==
  /\ bpc = "gate"
  /\ IF GateHeld
       THEN /\ tasks' = Append(tasks, NewTask(bargs))
            /\ BFinish(bargs, "forwarded")
       ELSE /\ BFinish(bargs, "took_over")
            /\ UNCHANGED tasks
  /\ UNCHANGED << registry, log, nInv >>
  /\ UNCHANGED aVars /\ UNCHANGED dVars
  /\ UNCHANGED xVars

BStep ==
  \/ (\E args \in LaterArgLines \cup ForeignArgLines : BLaunch(args))
  \/ BGate

(***************************************************************************)
(* The tasks spawned in A by the single-instance callback.                 *)
(***************************************************************************)
\* `if cli.command() != CliCommand::Empty` of the callback.
ForwardedRuns(cli) == cli.kind # "Empty"

TaskDone(t, res) == [tasks EXCEPT ![t].pc = "done", ![t].res = res]

\* Cli::try_parse_from(args) and the first half of
\* open_widgets_by_cli_command; an Err is logged by the task.
FwdStart(t) ==
  /\ AAlive
  /\ tasks[t].pc = "spawned"
  /\ LET cli == Parse(tasks[t].args)
     IN IF cli.kind = "Error"
          THEN /\ tasks' = TaskDone(t, "err")
               /\ log' = log \cup {"fwd.parse"}
        ELSE IF ~ForwardedRuns(cli)
          THEN /\ tasks' = TaskDone(t, "ok")
               /\ UNCHANGED log
        ELSE LET r == ResolveBatch(cli, config)
             IN IF r.ok
                  THEN /\ tasks' = IF r.batch = << >>
                                      THEN TaskDone(t, "ok")
                                      ELSE [tasks EXCEPT ![t].pc = "opening",
                                                         ![t].queue = r.batch]
                       /\ UNCHANGED log
                  ELSE /\ tasks' = TaskDone(t, "err")
                       /\ log' = log \cup {"fwd.resolve"}
  /\ UNCHANGED << registry >>
  /\ UNCHANGED aVars /\ UNCHANGED bVars /\ UNCHANGED dVars
  /\ UNCHANGED xVars

\* One turn of the for loop of open_widgets_by_cli_command in a task: the
\* open() the task is inside returns, having inserted its widget, and the
\* open() of the next turn begins; after the last turn the task returns
\* Ok(()).
FwdOpenNext(t, ok) ==
  /\ AAlive
  /\ tasks[t].pc = "opening"
  /\ LET w == Head(tasks[t].queue)
         rest == RestOfBatch(tasks[t].queue, ok)
     IN /\ tasks' = [tasks EXCEPT
                       ![t].called = Append(@, [cfg |-> w, ok |-> ok]),
                       ![t].queue = rest,
                       ![t].pc = IF rest = << >> THEN "done" ELSE "opening",
                       ![t].res = IF rest = << >> THEN "ok" ELSE "none",
                       ![t].gen = "current"]
        /\ registry' = RegAfterOpen(registry, w, ok)
        /\ late' = IF ok /\ tasks[t].gen = "overtaken"
                     THEN [late EXCEPT ![w] = @ + 1]
                     ELSE late
  /\ chan' = ChanAfterOpen(chan, ok, Subscribed)
  /\ log' = IF ok THEN log ELSE log \cup {"fwd.open_failed"}
  /\ UNCHANGED aVars /\ UNCHANGED bVars
  /\ UNCHANGED << dpc, disabled, rl, inflight, trayRead, exitreq >>

FwdStep ==
  \/ (\E t \in 1..Len(tasks) : FwdStart(t))
  \/ (\E t \in 1..Len(tasks), ok \in BOOLEAN : FwdOpenNext(t, ok))

(***************************************************************************)
(* The environment: file events, monitor changes, closed windows.          *)
(***************************************************************************)
IsBuilt(name) == name \in { constructed[i] : i \in 1..Len(constructed) }

\* The component that owns the sender of each signal.
EmitterOf(s) ==
  IF s \in {"settings_change", "widget_configs_change"} THEN "Config"
  ELSE IF s = "monitors_change" THEN "MonitorState"
  ELSE "WidgetFactory"

\* The tasks that are inside an open() of generation `from` pass to `to`.
MarkInFlight(ts, from, to) ==
  IF \A t \in 1..Len(ts) : ts[t].pc # "opening" \/ ts[t].gen # from THEN ts
  ELSE [t \in 1..Len(ts) |->
          IF ts[t].pc = "opening" /\ ts[t].gen = from
            THEN [ts[t] EXCEPT !.gen = to]
            ELSE ts[t]]

\* A settings file or widget config file changes on disk, or the monitors
\* change: the owner sends on its channel.  An open() that is in flight
\* has read what was there before.
Emit(s) ==
  /\ AAlive
  /\ IsBuilt(EmitterOf(s))
  /\ chan' = ChanSend(chan, s, Subscribed)
  /\ tasks' = IF s \in {"monitors_change", "widget_configs_change"}
                THEN MarkInFlight(tasks, "current", "outdated")
                ELSE tasks
  /\ UNCHANGED << registry, log >>
  /\ UNCHANGED aVars /\ UNCHANGED bVars
  /\ UNCHANGED << dpc, disabled, rl, inflight >>
  /\ UNCHANGED xVars

\* A widget's window is closed: WidgetFactory removes it and sends on
\* close_tx.
CloseWidget(w) ==
  /\ AAlive
  /\ registry[w] > 0
  /\ registry' = [registry EXCEPT ![w] = @ - 1]
  /\ \E l \in {late[w], late[w] - 1} :
       /\ l >= 0
       /\ l <= registry[w] - 1
       /\ late' = [late EXCEPT ![w] = l]
  /\ chan' = ChanSend(chan, "widget_close", Subscribed)
  /\ UNCHANGED << tasks, log >>
  /\ UNCHANGED aVars /\ UNCHANGED bVars
  /\ UNCHANGED << dpc, disabled, rl, inflight, trayRead, exitreq >>

EnvStep ==
  \/ (\E s \in {"settings_change", "monitors_change", "widget_configs_change"} :
        Emit(s))
  \/ (\E w \in AllWidgetConfigs : CloseWidget(w))

(***************************************************************************)
(* The Dispatcher: the loop of listen_events.                              *)
(***************************************************************************)
\* The widgets of the registry as a sequence, in the order of `order`.
RECURSIVE RegSeq(_, _)
RegSeq(reg, order) ==
  IF order = << >> THEN << >>
  ELSE IF reg[Head(order)] > 0
    THEN << Head(order) >> \o RegSeq([reg EXCEPT ![Head(order)] = @ - 1], order)
    ELSE RegSeq(reg, Tail(order))

\* relaunch_all, on entry: the widgets to tear down and to reopen.
BeginRelaunch(reg) ==
  [phase |-> "teardown", close |-> RegSeq(reg, WidgetOrder),
   open |-> RegSeq(reg, WidgetOrder)]


\* An arm whose recv() yields Err(Lagged) does not match `Ok(_)`: select!
\* disables the arm for this turn of the loop and polls the others.  The
\* receiver has skipped to the oldest message still held.
DispPollLagged(s) ==
  /\ dpc = "select"
  /\ s \notin disabled
  /\ chan[s].lag
  /\ chan' = [chan EXCEPT ![s].lag = FALSE]
  /\ disabled' = disabled \cup {s}
  /\ UNCHANGED << registry, tasks, log, dpc, rl, inflight >>
  /\ UNCHANGED aVars /\ UNCHANGED bVars
  /\ UNCHANGED xVars

\* An arm whose recv() yields Ok(_): its action is called.
DispRecv(s) ==
  /\ dpc = "select"
  /\ s \notin disabled
  /\ ~chan[s].lag
  /\ chan[s].n > 0
  /\ chan' = [chan EXCEPT ![s].n = @ - 1]
  /\ disabled' = {}
  /\ dpc' = AwaitAction(ActionOf(s))
  /\ IF ActionOf(s) = "relaunch"
       THEN /\ rl' = BeginRelaunch(registry)
            /\ inflight' = inflight + 1
            /\ tasks' = MarkInFlight(tasks, "outdated", "overtaken")
            /\ late' = EmptyRegistry
       ELSE UNCHANGED << rl, inflight, tasks, late >>
  /\ UNCHANGED << registry, log, trayRead, exitreq >>
  /\ UNCHANGED aVars /\ UNCHANGED bVars

\* Every arm is disabled and the select! has no else arm: it panics and
\* the spawned task ends.
DispPanic ==
  /\ dpc = "select"
  /\ disabled = Signals
  /\ dpc' = "panicked"
  /\ UNCHANGED << registry, tasks, log, chan, disabled, rl, inflight >>
  /\ UNCHANGED aVars /\ UNCHANGED bVars
  /\ UNCHANGED xVars

\* `if let Err(err) = res { error!(...) }`, then the next turn of the loop.
DispLog(ok) == IF ok THEN log ELSE log \cup {"dispatch"}

\* tray.refresh() returns.
RefreshReturn(ok) ==
  /\ dpc = "refresh"
  /\ dpc' = "select"
  /\ log' = DispLog(ok)
  /\ UNCHANGED << registry, tasks, chan, disabled, rl, inflight >>
  /\ UNCHANGED aVars /\ UNCHANGED bVars
  /\ trayRead' = registry
  /\ UNCHANGED << late, exitreq >>

\* relaunch_all: one of the widgets that were registered on entry is torn
\* down, unless its window was closed in the meantime.
RelaunchTeardown ==
  /\ rl.phase = "teardown"
  /\ rl.close # << >>
  /\ LET w == Head(rl.close)
     IN IF registry[w] > late[w]
          THEN /\ registry' = [registry EXCEPT ![w] = @ - 1]
               /\ chan' = ChanSend(chan, "widget_close", Subscribed)
          ELSE UNCHANGED << registry, chan >>
  /\ rl' = [rl EXCEPT !.close = Tail(@)]
  /\ UNCHANGED << tasks, log, dpc, disabled, inflight >>
  /\ UNCHANGED xVars
  /\ UNCHANGED aVars /\ UNCHANGED bVars

\* relaunch_all: everything is torn down; Config and MonitorState are read
\* again.
RelaunchReread ==
  /\ rl.phase = "teardown"
  /\ rl.close = << >>
  /\ rl' = [rl EXCEPT !.phase = "create"]
  /\ UNCHANGED << registry, tasks, log, dpc, chan, disabled, inflight >>
  /\ UNCHANGED aVars /\ UNCHANGED bVars
  /\ UNCHANGED xVars

\* relaunch_all: one widget is opened again; a failure does not stop the
\* rest from being reopened.
RelaunchCreate(ok) ==
  /\ rl.phase = "create"
  /\ rl.open # << >>
  /\ registry' = RegAfterOpen(registry, Head(rl.open), ok)
  /\ chan' = ChanAfterOpen(chan, ok, Subscribed)
  /\ rl' = [rl EXCEPT !.open = Tail(@)]
  /\ UNCHANGED << tasks, log, dpc, disabled, inflight >>
  /\ UNCHANGED aVars /\ UNCHANGED bVars
  /\ UNCHANGED xVars

\* relaunch_all returns.
RelaunchReturn(ok) ==
  /\ rl.phase = "create"
  /\ rl.open = << >>
  /\ rl' = IdleRelaunch
  /\ inflight' = inflight - 1
  /\ dpc' = IF dpc = "relaunch" THEN "select" ELSE dpc
  /\ log' = DispLog(ok)
  /\ UNCHANGED << registry, tasks, chan, disabled >>
  /\ UNCHANGED aVars /\ UNCHANGED bVars
  /\ UNCHANGED xVars

DispStep ==
  \/ (\E s \in Signals : DispPollLagged(s))
  \/ (\E s \in Signals : DispRecv(s))
  \/ DispPanic
  \/ (\E ok \in BOOLEAN : RefreshReturn(ok))
  \/ RelaunchTeardown
  \/ RelaunchReread
  \/ (\E ok \in BOOLEAN : RelaunchCreate(ok))
  \/ (\E ok \in BOOLEAN : RelaunchReturn(ok))

(***************************************************************************)
(* app.run: the callback that sees an exit request of the host.  The host  *)
(* asks without a code when the last window is closed, and with a code     *)
(* when the application is told to exit.                                   *)
(***************************************************************************)
NoCode == "no_code"
ExitCodes == {NoCode, "code_0", "code_1"}

\* OnExitRequested with no call of prevent_exit.
OnExitRequestedNeverPrevents(code) == "exit"

\* `if code.is_none() { api.prevent_exit(); }`
OnExitRequested(code) == IF code = NoCode THEN "prevented" ELSE "exit"

\* RunEvent::ExitRequested { code, api, .. }: when the exit is not
\* prevented the process ends, and its tasks, channels and windows with it.
ExitRequested(code) ==
  /\ apc = "running"
  /\ exitreq' = code
  /\ IF OnExitRequested(code) = "exit"
       THEN /\ apc' = "exited"
            /\ aexit' = "ok"
            /\ registry' = EmptyRegistry
            /\ dpc' = "off"
            /\ chan' = EmptyChan
            /\ disabled' = {}
            /\ rl' = IdleRelaunch
            /\ inflight' = 0
       ELSE /\ UNCHANGED << apc, aexit, registry >>
            /\ UNCHANGED dVars
  /\ UNCHANGED << aargs, config, constructed, squeue, scalled, tasks, log >>
  /\ UNCHANGED bVars
  /\ UNCHANGED << trayRead, late >>

(***************************************************************************)
(* Spec: the launch of A, the later invocations and their forwarded        *)
(* commands, with the Dispatcher handling the signals the opens emit.      *)
(* Nothing else happens in the environment, so no monitors_change or       *)
(* widget_configs_change signal is ever sent and relaunch_all never runs.  *)
(***************************************************************************)
Next ==
  \/ AStep \/ BStep \/ FwdStep
  \/ (\E s \in Signals : DispPollLagged(s))
  \/ (\E s \in Signals : DispRecv(s))
  \/ (\E ok \in BOOLEAN : RefreshReturn(ok))

Spec == Init /\ [][Next]_vars

(***************************************************************************)
(* DispatcherSpec: A is running after `startup` opened bar and top; the    *)
(* environment sends signals and closes widgets without end.               *)
(***************************************************************************)
InitRunning ==
  /\ aargs = << "startup" >>
  /\ apc = "running"
  /\ aexit = "none"
  /\ config = [config_dir |-> DefaultDir]
  /\ constructed = << "Config", "MonitorState", "WidgetFactory", "Gate", "Plugins",
                      "ProviderManager", "SysTray", "Dispatcher" >>
  /\ squeue = << >>
  /\ scalled = << [cfg |-> WidgetConfig(DefaultDir, "bar"), ok |-> TRUE],
                  [cfg |-> WidgetConfig(DefaultDir, "top"), ok |-> TRUE] >>
  /\ registry = [EmptyRegistry EXCEPT ![WidgetConfig(DefaultDir, "bar")] = 1,
                                      ![WidgetConfig(DefaultDir, "top")] = 1]
  /\ tasks = << >>
  /\ bargs = << >>
  /\ bpc = "idle"
  /\ bdone = {}
  /\ nInv = 0
  /\ log = {}
  /\ dpc = "select"
  /\ chan = EmptyChan
  /\ disabled = {}
  /\ rl = IdleRelaunch
  /\ inflight = 0
  /\ trayRead = registry
  /\ late = EmptyRegistry
  /\ exitreq = "unasked"

DispatcherNext == EnvStep \/ DispStep

DispatcherSpec == InitRunning /\ [][DispatcherNext]_vars

\* The dispatcher's own steps are taken when they stay possible; select!
\* picks among the ready arms at random, so an arm that is ready again and
\* again is taken.  The environment owes nothing.
DispatcherFairness ==
  /\ \A s \in Signals : WF_vars(DispPollLagged(s))
  /\ \A s \in Signals : SF_vars(DispRecv(s))
  /\ WF_vars(DispPanic)
  /\ WF_vars(\E ok \in BOOLEAN : RefreshReturn(ok))
  /\ WF_vars(RelaunchTeardown)
  /\ WF_vars(RelaunchReread)
  /\ WF_vars(\E ok \in BOOLEAN : RelaunchCreate(ok))
  /\ WF_vars(\E ok \in BOOLEAN : RelaunchReturn(ok))

FairDispatcherSpec == DispatcherSpec /\ DispatcherFairness

(***************************************************************************)
(* Properties.                                                             *)
(***************************************************************************)
RefreshSignals == {"widget_open", "widget_close", "settings_change"}
RelaunchSignals == {"monitors_change", "widget_configs_change"}

\* C1: the Dispatcher loop never terminates, whatever signals arrive and
\* whatever the actions return, also when receivers have lagged: once
\* started it is waiting in select! or running an action.
C1_LoopNeverTerminates == dpc \in {"off", "select", "refresh", "relaunch"}

\* C2: a step of the loop that receives a widget-opened, widget-closed or
\* settings-changed signal calls refresh() and not relaunch_all(); one
\* that receives a monitor-changed or widget-configs-changed signal calls
\* relaunch_all() and not refresh(); a step receives at most one signal,
\* and no action is called by a step that receives none.
C2_SignalToAction ==
  [][ LET received == { s \in Signals : chan'[s].n < chan[s].n }
          refreshCalled == dpc # "refresh" /\ dpc' = "refresh"
          relaunchCalled == inflight' > inflight
      IN /\ Cardinality(received) <= 1
         /\ \A s \in received \cap RefreshSignals :
              refreshCalled /\ ~relaunchCalled
         /\ \A s \in received \cap RelaunchSignals :
              relaunchCalled /\ ~refreshCalled /\ inflight' = inflight + 1
         /\ received = {} => ~refreshCalled /\ ~relaunchCalled ]_vars

\* A refresh() is running for a received signal while a monitor-changed
\* signal waits and no relaunch_all() has been called for it.
C2_Witness ==
  /\ dpc = "refresh"
  /\ chan["monitors_change"].n > 0
  /\ inflight = 0

\* C3: at most one relaunch_all() is in flight: while one runs the loop is
\* inside it and starts no other.
C3_OneRelaunchInFlight ==
  /\ inflight <= 1
  /\ inflight = 1 <=> rl.phase # "idle"
  /\ inflight = 1 <=> dpc = "relaunch"

\* relaunch_all() is between teardown and create while another
\* monitor-changed signal and a widget-configs-changed signal wait.
C3_Witness ==
  /\ inflight = 1
  /\ rl.phase = "create"
  /\ chan["monitors_change"].n > 0
  /\ chan["widget_configs_change"].n > 0

\* C4: a signal that waits in a channel of the Dispatcher is followed by
\* the start of its action: relaunch_all() for monitor-changed and
\* widget-configs-changed, refresh() for the other three.
C4_EmittedSignalHandled ==
  /\ \A s \in RelaunchSignals : (chan[s].n > 0) ~> (dpc = "relaunch")
  /\ \A s \in RefreshSignals : (chan[s].n > 0) ~> (dpc = "refresh")

(***************************************************************************)
(* Properties of the launch and of the forwarded commands.                 *)
(***************************************************************************)
Cfgs(calls) == [i \in 1..Len(calls) |-> calls[i].cfg]
SomeFailed(calls) == \E i \in 1..Len(calls) : ~calls[i].ok

\* The widget files of a directory, read without the Config operators.
FileAt(dir, path) ==
  { i \in 1..Len(WidgetFiles(dir)) : WidgetFiles(dir)[i].path = path }
IsAutostart(w) ==
  \E i \in FileAt(w.dir, w.path) : WidgetFiles(w.dir)[i].autostart

\* Per directory, the configs flagged autostart in the order of the files.
AutostartOf ==
  [d \in {"default", "alt"} |-> SelectSeq(AllConfigsOf(d, WidgetFiles(d)), IsAutostart)]

\* The commands that resolve to a batch in an instance whose Config is cfg.
ResolvesIn(cli, cfg) ==
  \/ cli.kind \in {"Startup", "Empty"}
  \/ /\ cli.kind = "OpenWidgetDefault"
     /\ WidgetConfig(cfg.config_dir, cli.config_path) \in AllWidgetConfigs

\* The batch of such a command, from the files.
BatchOf(cli, cfg) ==
  IF cli.kind = "OpenWidgetDefault"
    THEN << WidgetConfig(cfg.config_dir, cli.config_path) >>
    ELSE AutostartOf[cfg.config_dir]

ACli == Parse(aargs)
ABatchStarted == apc \in {"opening", "listen", "running"}
TaskCli(t) == Parse(tasks[t].args)
TaskRuns(t) == TaskCli(t).kind \notin {"Error", "Empty"} /\ ResolvesIn(TaskCli(t), config)

\* C5: open() is called once for every config of a command's batch, in the
\* order of the batch, whatever the earlier open() calls returned; a
\* failed open() is logged and the command still succeeds: the launch
\* goes on to SysTray::new and never ends in the middle of a batch.
C5_BatchOpensAll ==
  /\ ABatchStarted => Cfgs(scalled) \o squeue = BatchOf(ACli, config)
  /\ apc = "exited" /\ IsBuilt("ProviderManager") /\ ResolvesIn(ACli, config)
       => Cfgs(scalled) = BatchOf(ACli, config) /\ squeue = << >>
  /\ SomeFailed(scalled) => "A.open_failed" \in log
  /\ \A t \in 1..Len(tasks) :
       /\ tasks[t].pc = "opening"
            => Cfgs(tasks[t].called) \o tasks[t].queue = BatchOf(TaskCli(t), config)
       /\ tasks[t].pc = "done" /\ TaskRuns(t)
            => Cfgs(tasks[t].called) = BatchOf(TaskCli(t), config) /\ tasks[t].res = "ok"
       /\ SomeFailed(tasks[t].called) => "fwd.open_failed" \in log

\* `startup` ran in A: the first open() failed, the second was still made,
\* and the launch went on to the tray and the Dispatcher.
C5_Witness ==
  /\ apc = "running"
  /\ Len(scalled) = 2
  /\ ~scalled[1].ok
  /\ scalled[2].ok
  /\ IsBuilt("SysTray")
  /\ dpc # "off"

NoOpenCalls ==
  /\ scalled = << >>
  /\ \A t \in 1..Len(tasks) : tasks[t].called = << >>

\* C6: when Config::new fails, or the startup command is
\* open-widget-default for a path with no widget config, the launch
\* aborts: no widget is opened, SysTray is not constructed, the Dispatcher
\* is not started, the error is logged and the process returns an error.
C6_FatalStartupAborts ==
  LET dir == ConfigDirOf(ConfigDirOverride(ACli))
      fatal == \/ ~ConfigLoads(dir)
               \/ ACli.kind = "OpenWidgetDefault" /\ FileAt(dir, ACli.config_path) = {}
  IN fatal /\ ACli.kind # "Query" =>
       /\ NoOpenCalls
       /\ registry = EmptyRegistry
       /\ ~IsBuilt("SysTray")
       /\ dpc = "off"
       /\ apc \notin {"listen", "running"}
       /\ apc = "exited" => aexit = "err" /\ "A.start_app" \in log

\* C7: every later invocation with a command other than query has its
\* command line forwarded to A, whatever its arguments; a forwarded
\* open-widget-default for a config that exists makes A call open() once,
\* for that config.
C7_LaterInvocationForwarded ==
  /\ \A e \in bdone :
       BParse(e.args).kind \notin {"Error", "Query"} /\ e.outcome # "took_over"
         => e.outcome = "forwarded"
  /\ \A t \in 1..Len(tasks) :
       tasks[t].pc = "done" /\ TaskCli(t).kind = "OpenWidgetDefault" /\ TaskRuns(t)
         => Cfgs(tasks[t].called) = << WidgetConfig(config.config_dir, TaskCli(t).config_path) >>

\* The forwarded commands that fail before any open().
TaskFailsEarly(t) == TaskCli(t).kind = "Error" \/ ~ResolvesIn(TaskCli(t), config)

\* C8: a forwarded command line that does not parse, or whose config path
\* does not resolve, makes no open() call and ends logged with an error; a
\* step of a forwarded task that fails (the task ends in error, or its
\* open() fails) is logged, leaves the registry, the other tasks, the
\* launch of A and the Dispatcher as they were.
C8_ForwardedFailureLoggedOnly ==
  /\ [](\A t \in 1..Len(tasks) :
          TaskFailsEarly(t) =>
            /\ tasks[t].called = << >>
            /\ tasks[t].pc \in {"spawned", "done"}
            /\ tasks[t].pc = "done" =>
                 tasks[t].res = "err" /\ {"fwd.parse", "fwd.resolve"} \cap log # {})
  /\ [][ \A t \in 1..Len(tasks) :
           LET ended == tasks[t].res # "err" /\ tasks'[t].res = "err"
               openFailed == /\ Len(tasks'[t].called) > Len(tasks[t].called)
                             /\ ~tasks'[t].called[Len(tasks'[t].called)].ok
           IN ended \/ openFailed =>
                /\ registry' = registry
                /\ {"fwd.parse", "fwd.resolve", "fwd.open_failed"} \cap log' # {}
                /\ << apc, aexit, constructed, scalled, squeue >>' =
                     << apc, aexit, constructed, scalled, squeue >>
                /\ << dpc, chan, disabled, rl, inflight >>' =
                     << dpc, chan, disabled, rl, inflight >>
                /\ Len(tasks') = Len(tasks)
                /\ \A u \in 1..Len(tasks) : u # t => tasks'[u] = tasks[u] ]_vars

\* A forwarded command failed while a widget was open; afterwards another
\* forwarded command opened a widget and the Dispatcher runs.
C8_Witness ==
  /\ Len(tasks) = 2
  /\ tasks[1].res = "err"
  /\ tasks[2].res = "ok"
  /\ \E i \in 1..Len(tasks[2].called) : tasks[2].called[i].ok
  /\ Len(scalled) > 0 /\ scalled[1].ok
  /\ dpc \in {"select", "refresh"}

\* C9: the empty command causes no open() call, in the first instance and
\* when forwarded.
C9_EmptyIsNoop ==
  /\ ACli.kind = "Empty" => scalled = << >>
  /\ \A t \in 1..Len(tasks) : TaskCli(t).kind = "Empty" => tasks[t].called = << >>

\* The configs a command is to open: for `startup` those flagged
\* autostart, for `open-widget-default <path>` the one at the path.
AutostartIn ==
  [d \in {"default", "alt"} |->
     { w \in AllWidgetConfigs : w.dir = d /\ IsAutostart(w) }]

Expected(cli, cfg) ==
  IF cli.kind = "Startup" THEN AutostartIn[cfg.config_dir]
  ELSE IF WidgetConfig(cfg.config_dir, cli.config_path) \in AllWidgetConfigs
    THEN { WidgetConfig(cfg.config_dir, cli.config_path) }
    ELSE {}

Called(calls) == { calls[i].cfg : i \in 1..Len(calls) }
OnceEach(calls) == Cardinality(Called(calls)) = Len(calls)

\* C10: `startup` calls open() once for each widget config flagged
\* autostart and never for another; `open-widget-default <path>` calls
\* open() once, for the config at that path, and for no other.  While the
\* command runs it has made no call beyond these.
C10_OpensExactlyTheBatch ==
  /\ ACli.kind \in {"Startup", "OpenWidgetDefault"} /\ scalled # << >> =>
       /\ OnceEach(scalled)
       /\ Called(scalled) \subseteq Expected(ACli, config)
  /\ ACli.kind \in {"Startup", "OpenWidgetDefault"}
       /\ (apc \in {"listen", "running"} \/ (apc = "opening" /\ squeue = << >>))
       => Called(scalled) = Expected(ACli, config)
  /\ \A t \in 1..Len(tasks) :
       TaskCli(t).kind \in {"Startup", "OpenWidgetDefault"} =>
         /\ OnceEach(tasks[t].called)
         /\ Called(tasks[t].called) \subseteq Expected(TaskCli(t), config)
         /\ tasks[t].pc = "done" /\ tasks[t].res = "ok"
              => Called(tasks[t].called) = Expected(TaskCli(t), config)

\* A ran `startup` and a forwarded `open-widget-default menu` has finished:
\* bar and top were opened by the one, menu by the other.
C10_Witness ==
  /\ ACli.kind = "Startup"
  /\ apc = "running"
  /\ Cfgs(scalled) = << WidgetConfig("default", "bar"), WidgetConfig("default", "top") >>
  /\ \E t \in 1..Len(tasks) :
       /\ tasks[t].pc = "done"
       /\ Cfgs(tasks[t].called) = << WidgetConfig("default", "menu") >>

(***************************************************************************)
(* Properties of the two paths to open_widgets_by_cli_command.             *)
(***************************************************************************)
\* The command of a command line, without its --config-dir.
CommandOf(cli) == [kind |-> cli.kind, config_path |-> cli.config_path]

\* C11: the startup path and the forwarded path are the same operation: a
\* forwarded command that has finished in A made the same sequence of
\* open() calls as the startup path made in A for the same command, and
\* on either path every failed open() is logged and the rest of the batch
\* still opened.
C11_SamePathSameCalls ==
  \A t \in 1..Len(tasks) :
    /\ tasks[t].pc = "done"
    /\ apc \in {"listen", "running"}
    /\ CommandOf(TaskCli(t)) = CommandOf(ACli)
    => /\ Cfgs(tasks[t].called) = Cfgs(scalled)
       /\ tasks[t].res = "ok"
       /\ SomeFailed(tasks[t].called) => "fwd.open_failed" \in log
       /\ SomeFailed(scalled) => "A.open_failed" \in log

(***************************************************************************)
(* Properties of the order of the launch.                                  *)
(***************************************************************************)
\* The components of the setup closure of start_app, in the order of its
\* statements; the startup command runs between ProviderManager and
\* SysTray.
StartupOrder ==
  << "Config", "MonitorState", "WidgetFactory", "Gate", "Plugins",
     "ProviderManager", "SysTray", "Dispatcher" >>

IsPrefix(a, b) == Len(a) <= Len(b) /\ a = SubSeq(b, 1, Len(a))

\* C12: the launch constructs Config, MonitorState, WidgetFactory, the
\* plugins with the single-instance gate, ProviderManager, runs the startup
\* command, constructs SysTray and starts the Dispatcher, in this order and
\* each only after all the earlier ones succeeded: the startup command
\* makes no open() call before ProviderManager exists, SysTray is
\* constructed only when the command has opened its whole batch, the
\* Dispatcher runs only when SysTray exists, and a launch that failed has
\* started nothing after the failed step.
C12_StartupOrder ==
  /\ ACli.kind # "Query" => IsPrefix(constructed, StartupOrder)
  /\ apc = "opening" \/ scalled # << >> => IsBuilt("ProviderManager")
  /\ IsBuilt("SysTray") =>
       /\ squeue = << >>
       /\ Cfgs(scalled) = BatchOf(ACli, config)
  /\ dpc # "off" => IsBuilt("SysTray") /\ IsBuilt("Dispatcher")
  /\ IsBuilt("Dispatcher") => apc = "running"
  /\ aexit = "err" => ~IsBuilt("Dispatcher") /\ dpc = "off"

\* The launch of `startup` is complete: every component exists, both
\* widgets were opened before SysTray, and the Dispatcher runs.
C12_Witness ==
  /\ constructed = StartupOrder
  /\ Len(scalled) = 2
  /\ dpc = "select"
  /\ apc = "running"
  /\ ACli.kind = "Startup"

(***************************************************************************)
(* Properties of `query monitors`.                                         *)
(***************************************************************************)
\* C13: an instance run with `query monitors` builds a MonitorState of its
\* own, prints and exits with code 0: it constructs no Config,
\* WidgetFactory, ProviderManager or SysTray, calls no open(), starts no
\* Dispatcher and never registers or passes the single-instance gate; a
\* later invocation with `query monitors` is never forwarded and its step
\* leaves the running instance as it was.
C13_QueryOnlyPrints ==
  /\ [](/\ ACli.kind = "Query" =>
            /\ constructed \in { << >>, << "QueryMonitorState" >> }
            /\ config.config_dir = NoDir
            /\ NoOpenCalls
            /\ registry = EmptyRegistry
            /\ dpc = "off"
            /\ ~GateHeld
            /\ tasks = << >>
            /\ log = {}
            /\ apc = "exited" => aexit = "ok"
        /\ \A e \in bdone : BParse(e.args).kind = "Query" => e.outcome = "query"
        /\ \A t \in 1..Len(tasks) : TaskCli(t).kind # "Query")
  /\ [][ (\E e \in bdone' \ bdone : e.outcome = "query") =>
           /\ tasks' = tasks
           /\ registry' = registry
           /\ log' = log
           /\ aVars' = aVars
           /\ dVars' = dVars
           /\ xVars' = xVars ]_vars

\* `query monitors` was the first invocation: it has printed and exited 0.
C13_Witness ==
  /\ ACli.kind = "Query"
  /\ apc = "exited"
  /\ aexit = "ok"
  /\ constructed = << "QueryMonitorState" >>

(***************************************************************************)
(* Properties of the tray.                                                 *)
(***************************************************************************)
\* Nothing is left to happen in A: the launch is over, every forwarded
\* command has finished, no action is running and no signal waits.
Quiescent ==
  /\ apc = "running"
  /\ bpc = "idle"
  /\ \A t \in 1..Len(tasks) : tasks[t].pc = "done"
  /\ dpc = "select"
  /\ rl.phase = "idle"
  /\ \A s \in Signals : chan[s].n = 0 /\ ~chan[s].lag

\* C14: once no further event occurs the tray reflects the registry: every
\* open or close that SysTray::new did not see was followed by a
\* refresh(), so what SysTray last read is the registry as it is.
C14_TrayReflectsRegistry == Quiescent => trayRead = registry

(***************************************************************************)
(* RaceSpec: A is running after `startup`; later invocations forward       *)
(* `open-widget-default menu` while the monitors change.  No               *)
(* settings_change signal is sent, so the select! always keeps an arm.     *)
(***************************************************************************)
RaceNext ==
  \/ Emit("monitors_change")
  \/ BLaunch(<< "open-widget-default", "menu" >>)
  \/ BGate
  \/ FwdStep
  \/ (\E s \in Signals : DispPollLagged(s))
  \/ (\E s \in Signals : DispRecv(s))
  \/ (\E ok \in BOOLEAN : RefreshReturn(ok))
  \/ RelaunchTeardown
  \/ RelaunchReread
  \/ (\E ok \in BOOLEAN : RelaunchCreate(ok))
  \/ (\E ok \in BOOLEAN : RelaunchReturn(ok))

RaceSpec == InitRunning /\ [][RaceNext]_vars

\* No open() is in flight in a forwarded task.
NoOpenInFlight == \A t \in 1..Len(tasks) : tasks[t].pc # "opening"

\* C15: once relaunch_all() has returned and no open() is in flight, the
\* registry holds no widget of the generation before the relaunch: none
\* whose open() began before the change the relaunch handles and that the
\* relaunch did not tear down.
C15_OneGenerationAfterRelaunch ==
  rl.phase = "idle" /\ inflight = 0 /\ NoOpenInFlight
    => \A w \in AllWidgetConfigs : late[w] = 0

(***************************************************************************)
(* Properties of the signal mesh.                                          *)
(***************************************************************************)
\* The Dispatcher waits in select! and no action runs.
DispatcherIdle == dpc = "select" /\ rl.phase = "idle"

\* C16: when the external events (file changes, monitor changes, widget
\* closes) come to an end, the Dispatcher performs finitely many actions
\* and is then idle for good, waiting in select!.
C16_ReturnsToIdle == ([]<><<EnvStep>>_vars) \/ <>[]DispatcherIdle

(***************************************************************************)
(* LifecycleSpec: A is running after `startup`; the environment sends      *)
(* signals, closes widgets and requests exits.                             *)
(***************************************************************************)
LifecycleNext ==
  \/ EnvStep
  \/ DispStep
  \/ (\E code \in ExitCodes : ExitRequested(code))

LifecycleSpec == InitRunning /\ [][LifecycleNext]_vars

\* C17: the process ends only by an exit request with an explicit code; an
\* exit request without a code is prevented and its step leaves the
\* process, the registry, the Dispatcher and its channels as they were, so
\* with every widget closed the process still runs and the Dispatcher is
\* still there to receive the next signal.
C17_ExitOnlyWithCode ==
  /\ [](/\ apc = "exited" => exitreq \in ExitCodes \ {NoCode}
        /\ exitreq \in {"unasked", NoCode} => apc = "running" /\ dpc # "off"
        /\ exitreq \in ExitCodes \ {NoCode} => apc = "exited" /\ aexit = "ok")
  /\ [][ exitreq' = NoCode /\ exitreq # NoCode =>
           /\ aVars' = aVars
           /\ dVars' = dVars
           /\ << registry, tasks, log, trayRead, late >>' =
                << registry, tasks, log, trayRead, late >> ]_vars

\* Every widget was closed, the exit request of the host was prevented,
\* and a monitors change that came afterwards is being handled:
\* relaunch_all() runs on the empty registry.
C17_Witness ==
  /\ registry = EmptyRegistry
  /\ exitreq = NoCode
  /\ apc = "running"
  /\ dpc = "relaunch"
  /\ rl = [phase |-> "teardown", close |-> << >>, open |-> << >>]

(***************************************************************************)
(* Properties of the single-instance gate.                                 *)
(***************************************************************************)
\* C18: no open() is called in A, by the startup command or by a forwarded
\* command, and no widget is registered, before A's ProviderManager has
\* been constructed and registered.
C18_NoOpenBeforeProviderManager ==
  ~IsBuilt("ProviderManager") => NoOpenCalls /\ registry = EmptyRegistry

\* The configs a forwarded task has opened or has still to open.
TaskConfigs(t) == Called(tasks[t].called) \cup { tasks[t].queue[i] : i \in 1..Len(tasks[t].queue) }

\* C19: A's Config is the one of the directory chosen at A's launch and no
\* step changes it once it is constructed; a forwarded command resolves
\* against that directory, whatever its own --config-dir: every config it
\* opens is of A's directory, and open-widget-default opens the config at
\* its path joined to A's directory.
C19_ForwardedKeepsConfig ==
  /\ [](/\ IsBuilt("Config") =>
             config.config_dir = ConfigDirOf(ConfigDirOverride(ACli))
        /\ \A t \in 1..Len(tasks) :
             /\ \A w \in TaskConfigs(t) : w.dir = config.config_dir
             /\ TaskCli(t).kind = "OpenWidgetDefault" =>
                  TaskConfigs(t) \subseteq
                    { WidgetConfig(config.config_dir, TaskCli(t).config_path) })
  /\ [][IsBuilt("Config") => config' = config]_vars

\* A runs with the default directory; a forwarded
\* `open-widget-default side --config-dir alt` has finished: side is a
\* widget of alt only, so the command found no config and opened nothing.
C19_Witness ==
  /\ config.config_dir = DefaultDir
  /\ \E t \in 1..Len(tasks) :
       /\ TaskCli(t).config_dir = "alt"
       /\ TaskCli(t).config_path = "side"
       /\ tasks[t].pc = "done"
       /\ tasks[t].res = "err"
       /\ tasks[t].called = << >>

====
